---- MODULE Spec2Model ----
(***************************************************************************)
(* Model of backend/app/db/database.py (engine, get_db, create_tables,     *)
(* drop_tables) and backend/app/core/config.py (the Settings validators).  *)
(*                                                                         *)
(* Strings are sequences of tokens (one-character strings for the CORS     *)
(* input, URL tokens such as "postgresql" and "://" for the URLs), so that *)
(* str.replace, str.split, str.strip and str.startswith are computed and   *)
(* not assumed.  Optional / Union values are tagged records.               *)
(*                                                                         *)
(* The pool of the code has pool_size=10 and max_overflow=20               *)
(* (database.py:25-26).  The model keeps the same discipline with a        *)
(* smaller pool, so that NumCallers concurrent sessions exhaust it.        *)
(***************************************************************************)
EXTENDS Integers, Sequences, FiniteSets, TLC

\* ------------------------------------------------------------------ bounds
NumCallers == 2
MaxSchemaRuns == 2
MaxCorsLen == 3
pool_size == 1
max_overflow == 0

Callers == 1..NumCallers

VARIABLES
    ENVIRONMENT,   \* settings.ENVIRONMENT, read when the engine is created
    checkedout,    \* connections currently borrowed from the engine's pool
    pc,            \* per get_db invocation: position in the generator
    body,          \* how the caller's unit of work ended
    raised,        \* the exception the body raised ("none" when it did not)
    pending,       \* the exception propagating inside get_db
    hasConn,       \* the session holds a borrowed connection
    txn,           \* transaction state of the session
    ops,           \* calls get_db issued on the session, in order
    logged,        \* what logger.error recorded
    result,        \* what reached the invoker when get_db finished
    req,           \* the body's connection request to the pool
    blocked,       \* the request had to wait for a slot
    sop,           \* schema operation running: create_tables or drop_tables
    spc,           \* its position
    sconn,         \* engine.begin() holds a pooled connection
    stxn,          \* state of the transaction engine.begin() opened
    sfailed,       \* the exception a step of the operation raised first
    spending,      \* the exception propagating in the operation
    slogged,       \* what the operation's logger.error recorded
    sinfo,         \* logger.info("... successfully") was reached
    sresult,       \* what reached the caller of the operation
    staged,        \* table state written inside the open transaction
    tables,        \* committed state of the schema: the tables exist
    tables0,       \* the schema when the operation was called
    sruns,         \* schema operations called so far
    environ,       \* the value supplied to Settings() for each field, if any
    values,        \* pydantic's `values`: the fields validated so far
    errs,          \* the fields whose validation failed
    corsOut,       \* what assemble_cors_origins returned (or that it raised)
    cpc            \* index of the next field Settings() validates

dbvars == <<ENVIRONMENT, checkedout, pc, body, raised, pending, hasConn, txn,
            ops, logged, result, req, blocked>>

\* the per-invocation variables of get_db (all of dbvars but the pool's count)
sessionvars == <<ENVIRONMENT, pc, body, raised, pending, hasConn, txn, ops, logged,
                 result, req, blocked>>

schemavars == <<sop, spc, sconn, stxn, sfailed, spending, slogged, sinfo,
                sresult, staged, tables, tables0, sruns>>

cfgvars == <<environ, values, errs, corsOut, cpc>>

vars == <<dbvars, schemavars, cfgvars>>

\* ------------------------------------------------------------ exceptions
\* Classes derived from Exception, and those derived from BaseException only.
ExceptionClasses == {"BodyError", "TimeoutError", "CommitError", "RollbackError",
                     "OperationalError", "ImportError", "ProgrammingError"}
BaseOnlyClasses == {"CancelledError", "GeneratorExit"}

\* `except Exception as e` (database.py:52)
ExceptClause(e) == e \in ExceptionClasses

\* ------------------------------------------------------------------ pool
\* poolclass=NullPool if settings.ENVIRONMENT == "test" else pool.QueuePool
poolclass == IF ENVIRONMENT = "test" THEN "NullPool" ELSE "QueuePool"

PoolCapacity == pool_size + max_overflow

\* QueuePool hands out at most pool_size + max_overflow connections; NullPool
\* opens a connection per checkout and has no limit.
HasSlotOverflowing == TRUE
HasSlot == poolclass = "NullPool" \/ checkedout < PoolCapacity

\* ----------------------------------------------------- session operations
Op(name, ok) == [op |-> name, ok |-> ok]

\* Returning the session's connection to the pool.
Released(c) == IF hasConn[c] THEN checkedout - 1 ELSE checkedout

\* session.close(): ends the transaction and releases the connection.
session_close_leaky(c) ==
    /\ txn' = [txn EXCEPT ![c] = "closed"]
    /\ ops' = [ops EXCEPT ![c] = Append(@, Op("close", TRUE))]
    /\ UNCHANGED <<hasConn, checkedout>>
session_close(c) ==
    /\ txn' = [txn EXCEPT ![c] = "closed"]
    /\ hasConn' = [hasConn EXCEPT ![c] = FALSE]
    /\ checkedout' = Released(c)
    /\ ops' = [ops EXCEPT ![c] = Append(@, Op("close", TRUE))]

\* --------------------------------------------------------------- get_db
\* async with AsyncSessionLocal() as session: try: yield session
GetDbEnter(c) ==
    /\ UNCHANGED <<schemavars, cfgvars>>
    /\ pc[c] = "idle"
    /\ pc' = [pc EXCEPT ![c] = "yield"]
    /\ txn' = [txn EXCEPT ![c] = "active"]
    /\ UNCHANGED <<ENVIRONMENT, checkedout, body, raised, pending, hasConn,
                   ops, logged, result, req, blocked>>

\* The body's first use of the session borrows a connection: at once when the
\* pool has a slot, otherwise the caller blocks in the pool.
PoolRequest(c) ==
    /\ UNCHANGED <<schemavars, cfgvars>>
    /\ pc[c] = "yield"
    /\ req[c] = "none"
    /\ IF HasSlot
       THEN /\ req' = [req EXCEPT ![c] = "served"]
            /\ hasConn' = [hasConn EXCEPT ![c] = TRUE]
            /\ checkedout' = checkedout + 1
            /\ UNCHANGED <<pc, blocked>>
       ELSE /\ req' = [req EXCEPT ![c] = "waiting"]
            /\ pc' = [pc EXCEPT ![c] = "waiting"]
            /\ blocked' = [blocked EXCEPT ![c] = TRUE]
            /\ UNCHANGED <<hasConn, checkedout>>
    /\ UNCHANGED <<ENVIRONMENT, body, raised, pending, txn, ops, logged, result>>

\* A blocked caller is served once a slot is free.
PoolCheckout(c) ==
    /\ UNCHANGED <<schemavars, cfgvars>>
    /\ pc[c] = "waiting"
    /\ HasSlot
    /\ req' = [req EXCEPT ![c] = "served"]
    /\ hasConn' = [hasConn EXCEPT ![c] = TRUE]
    /\ checkedout' = checkedout + 1
    /\ pc' = [pc EXCEPT ![c] = "yield"]
    /\ UNCHANGED <<ENVIRONMENT, body, raised, pending, txn, ops, logged, result, blocked>>

\* The exception e is raised inside the try block (thrown in at the yield, or
\* raised by the commit): a matching except clause runs, else only the finally.
RaiseInTry(c, e) ==
    /\ pending' = [pending EXCEPT ![c] = e]
    /\ pc' = [pc EXCEPT ![c] = IF ExceptClause(e) THEN "except" ELSE "finally"]

\* No slot frees within the pool's timeout (the engine sets no pool_timeout, so
\* the pool's default applies): the body's statement raises TimeoutError.
PoolTimeout(c) ==
    /\ UNCHANGED <<schemavars, cfgvars>>
    /\ pc[c] = "waiting"
    /\ ~HasSlot
    /\ req' = [req EXCEPT ![c] = "timeout"]
    /\ body' = [body EXCEPT ![c] = "raised"]
    /\ raised' = [raised EXCEPT ![c] = "TimeoutError"]
    /\ RaiseInTry(c, "TimeoutError")
    /\ UNCHANGED <<ENVIRONMENT, checkedout, hasConn, txn, ops, logged, result, blocked>>

\* The caller's unit of work completes and the generator is resumed.
BodyReturn(c) ==
    /\ UNCHANGED <<schemavars, cfgvars>>
    /\ pc[c] = "yield"
    /\ body' = [body EXCEPT ![c] = "returned"]
    /\ pc' = [pc EXCEPT ![c] = "commit"]
    /\ UNCHANGED <<ENVIRONMENT, checkedout, raised, pending, hasConn, txn, ops,
                   logged, result, req, blocked>>

\* The caller's unit of work raises.
BodyRaise(c) ==
    /\ UNCHANGED <<schemavars, cfgvars>>
    /\ pc[c] = "yield"
    /\ body' = [body EXCEPT ![c] = "raised"]
    /\ raised' = [raised EXCEPT ![c] = "BodyError"]
    /\ RaiseInTry(c, "BodyError")
    /\ UNCHANGED <<ENVIRONMENT, checkedout, hasConn, txn, ops, logged, result, req, blocked>>

\* The caller's task is cancelled (CancelledError) or the generator is closed
\* at the yield (GeneratorExit), also while blocked in the pool.
BodyCancel(c) ==
    /\ UNCHANGED <<schemavars, cfgvars>>
    /\ pc[c] \in {"yield", "waiting"}
    /\ \E e \in BaseOnlyClasses :
          /\ raised' = [raised EXCEPT ![c] = e]
          /\ RaiseInTry(c, e)
    /\ body' = [body EXCEPT ![c] = "cancelled"]
    /\ req' = [req EXCEPT ![c] = IF @ = "waiting" THEN "cancelled" ELSE @]
    /\ UNCHANGED <<ENVIRONMENT, checkedout, hasConn, txn, ops, logged, result, blocked>>

\* await session.commit()  (database.py:51)
CommitSkipped(c) ==
    /\ UNCHANGED <<schemavars, cfgvars>>
    /\ pc[c] = "commit"
    /\ pc' = [pc EXCEPT ![c] = "finally"]
    /\ UNCHANGED <<ENVIRONMENT, checkedout, body, raised, pending, hasConn, txn,
                   ops, logged, result, req, blocked>>
Commit(c) ==
    /\ UNCHANGED <<schemavars, cfgvars>>
    /\ pc[c] = "commit"
    /\ \/ /\ ops' = [ops EXCEPT ![c] = Append(@, Op("commit", TRUE))]
          /\ txn' = [txn EXCEPT ![c] = "committed"]
          /\ hasConn' = [hasConn EXCEPT ![c] = FALSE]
          /\ checkedout' = Released(c)
          /\ pc' = [pc EXCEPT ![c] = "finally"]
          /\ pending' = pending
       \/ /\ ops' = [ops EXCEPT ![c] = Append(@, Op("commit", FALSE))]
          /\ RaiseInTry(c, "CommitError")
          /\ UNCHANGED <<txn, hasConn, checkedout>>
    /\ UNCHANGED <<ENVIRONMENT, body, raised, logged, result, req, blocked>>

\* except Exception as e: await session.rollback(); logger.error(...); raise
Except(c) ==
    /\ UNCHANGED <<schemavars, cfgvars>>
    /\ pc[c] = "except"
    /\ \/ /\ ops' = [ops EXCEPT ![c] = Append(@, Op("rollback", TRUE))]
          /\ txn' = [txn EXCEPT ![c] = "rolled_back"]
          /\ hasConn' = [hasConn EXCEPT ![c] = FALSE]
          /\ checkedout' = Released(c)
          /\ logged' = [logged EXCEPT ![c] = pending[c]]
          /\ pending' = pending
       \/ /\ ops' = [ops EXCEPT ![c] = Append(@, Op("rollback", FALSE))]
          /\ pending' = [pending EXCEPT ![c] = "RollbackError"]
          /\ UNCHANGED <<txn, hasConn, checkedout, logged>>
    /\ pc' = [pc EXCEPT ![c] = "finally"]
    /\ UNCHANGED <<ENVIRONMENT, body, raised, result, req, blocked>>

\* finally: await session.close()
Finally(c) ==
    /\ UNCHANGED <<schemavars, cfgvars>>
    /\ pc[c] = "finally"
    /\ session_close(c)
    /\ pc' = [pc EXCEPT ![c] = "aexit"]
    /\ UNCHANGED <<ENVIRONMENT, body, raised, pending, logged, result, req, blocked>>

\* Leaving `async with`: AsyncSession.__aexit__ closes the session again, and the
\* pending exception (if any) reaches the invoker.
AExit(c) ==
    /\ UNCHANGED <<schemavars, cfgvars>>
    /\ pc[c] = "aexit"
    /\ session_close(c)
    /\ result' = [result EXCEPT ![c] = pending[c]]
    /\ pc' = [pc EXCEPT ![c] = "done"]
    /\ UNCHANGED <<ENVIRONMENT, body, raised, pending, logged, req, blocked>>

get_db(c) ==
    \/ GetDbEnter(c)
    \/ PoolRequest(c)
    \/ PoolCheckout(c)
    \/ PoolTimeout(c)
    \/ BodyReturn(c)
    \/ BodyRaise(c)
    \/ BodyCancel(c)
    \/ Commit(c)
    \/ Except(c)
    \/ Finally(c)
    \/ AExit(c)

\* ------------------------------------------- create_tables / drop_tables
\* A step of a schema operation either succeeds or raises: an Exception of its
\* own kind, or CancelledError when the task is cancelled at that await.
StepFailures(kind) == {kind, "CancelledError"}

SchemaIdle == spc \in {"idle", "done"}

\* create_tables() / drop_tables() is called: try: async with engine.begin()
SchemaCall(op) ==
    /\ UNCHANGED <<dbvars, cfgvars>>
    /\ SchemaIdle
    /\ sruns < MaxSchemaRuns
    /\ \A c \in Callers : pc[c] = "idle"
    /\ sruns' = sruns + 1
    /\ sop' = op
    /\ spc' = "begin"
    /\ stxn' = "none"
    /\ sfailed' = "none"
    /\ spending' = "none"
    /\ slogged' = "none"
    /\ sinfo' = FALSE
    /\ sresult' = "none"
    /\ staged' = tables
    /\ tables0' = tables
    /\ UNCHANGED <<sconn, tables>>

\* A step raises e inside `async with engine.begin()`.
RaiseInBlock(e) ==
    /\ sfailed' = e
    /\ spending' = e
    /\ spc' = "ctx_exit"

\* engine.begin().__aenter__: borrow a pooled connection and begin a transaction.
EngineBegin ==
    /\ UNCHANGED <<sessionvars, cfgvars>>
    /\ spc = "begin"
    /\ \/ /\ HasSlot
          /\ sconn' = TRUE
          /\ checkedout' = checkedout + 1
          /\ stxn' = "begun"
          /\ spc' = IF sop = "create_tables" THEN "import" ELSE "run_sync"
          /\ UNCHANGED <<sfailed, spending>>
       \/ /\ \E e \in StepFailures("OperationalError") :
                /\ sfailed' = e
                /\ spending' = e
          /\ spc' = "handler"
          /\ UNCHANGED <<sconn, checkedout, stxn>>
    /\ UNCHANGED <<sop, slogged, sinfo, sresult, staged, tables, tables0, sruns>>

\* from app.models import user, analytics, dashboard  (create_tables only)
ImportModels ==
    /\ UNCHANGED <<sessionvars, cfgvars>>
    /\ spc = "import"
    /\ \/ /\ spc' = "run_sync"
          /\ UNCHANGED <<sfailed, spending>>
       \/ RaiseInBlock("ImportError")
    /\ UNCHANGED <<checkedout, sop, sconn, stxn, slogged, sinfo, sresult, staged,
                   tables, tables0, sruns>>

\* await conn.run_sync(Base.metadata.create_all / drop_all); logger.info(...)
RunSync ==
    /\ UNCHANGED <<sessionvars, cfgvars>>
    /\ spc = "run_sync"
    /\ \/ /\ staged' = (sop = "create_tables")
          /\ sinfo' = TRUE
          /\ spc' = "ctx_exit"
          /\ UNCHANGED <<sfailed, spending>>
       \/ /\ \E e \in StepFailures("ProgrammingError") : RaiseInBlock(e)
          /\ UNCHANGED <<staged, sinfo>>
    /\ UNCHANGED <<checkedout, sop, sconn, stxn, slogged, sresult, tables, tables0,
                   sruns>>

\* engine.begin().__aexit__: commit when the block raised nothing, roll back
\* otherwise; the connection goes back to the pool either way.
CtxExit ==
    /\ UNCHANGED <<sessionvars, cfgvars>>
    /\ spc = "ctx_exit"
    /\ IF spending = "none"
       THEN \/ /\ stxn' = "committed"
               /\ tables' = staged
               /\ spc' = "done"
               /\ UNCHANGED <<sfailed, spending>>
            \/ /\ stxn' = "rolled_back"
               /\ sfailed' = "OperationalError"
               /\ spending' = "OperationalError"
               /\ spc' = "handler"
               /\ UNCHANGED tables
       ELSE /\ stxn' = "rolled_back"
            /\ spc' = "handler"
            /\ UNCHANGED <<sfailed, spending, tables>>
    /\ sconn' = FALSE
    /\ checkedout' = checkedout - 1
    /\ UNCHANGED <<sop, slogged, sinfo, sresult, staged, tables0, sruns>>

\* except Exception as e: logger.error(...); raise
SchemaExceptSwallow ==
    /\ UNCHANGED <<sessionvars, cfgvars>>
    /\ spc = "handler"
    /\ slogged' = IF ExceptClause(spending) THEN spending ELSE slogged
    /\ sresult' = IF ExceptClause(spending) THEN "none" ELSE spending
    /\ spc' = "done"
    /\ UNCHANGED <<checkedout, sop, sconn, stxn, sfailed, spending, sinfo, staged,
                   tables, tables0, sruns>>
SchemaExcept ==
    /\ UNCHANGED <<sessionvars, cfgvars>>
    /\ spc = "handler"
    /\ slogged' = IF ExceptClause(spending) THEN spending ELSE slogged
    /\ sresult' = spending
    /\ spc' = "done"
    /\ UNCHANGED <<checkedout, sop, sconn, stxn, sfailed, spending, sinfo, staged,
                   tables, tables0, sruns>>

create_tables == SchemaCall("create_tables")
drop_tables == SchemaCall("drop_tables")

SchemaStep ==
    \/ EngineBegin
    \/ ImportModels
    \/ RunSync
    \/ CtxExit
    \/ SchemaExcept

InitSchema ==
    /\ sop = "none"
    /\ spc = "idle"
    /\ sconn = FALSE
    /\ stxn = "none"
    /\ sfailed = "none"
    /\ spending = "none"
    /\ slogged = "none"
    /\ sinfo = FALSE
    /\ sresult = "none"
    /\ tables \in BOOLEAN
    /\ staged = tables
    /\ tables0 = tables
    /\ sruns = 0

\* ============================================================== config.py
\* ---------------------------------------------------------------- values
None == [tag |-> "none", val |-> <<>>]
Missing == [tag |-> "missing", val |-> <<>>]
Str(s) == [tag |-> "str", val |-> s]
List(l) == [tag |-> "list", val |-> l]
IntVal(n) == [tag |-> "int", val |-> <<n>>]

\* ----------------------------------------------------------- str methods
\* s[i:] starts with the tokens of `old`
MatchAt(s, i, old) ==
    /\ i + Len(old) - 1 <= Len(s)
    /\ \A k \in 1..Len(old) : s[i + k - 1] = old[k]

\* str.replace(old, new): every non-overlapping occurrence, left to right
RECURSIVE ReplaceFrom(_, _, _, _)
ReplaceFrom(s, i, old, new) ==
    IF i > Len(s) THEN <<>>
    ELSE IF MatchAt(s, i, old) THEN new \o ReplaceFrom(s, i + Len(old), old, new)
    ELSE <<s[i]>> \o ReplaceFrom(s, i + 1, old, new)

Replace(s, old, new) == ReplaceFrom(s, 1, old, new)

\* str.startswith(prefix)
StartsWith(s, prefix) == MatchAt(s, 1, prefix)

\* str.split(","): one piece more than there are separators, empty pieces kept
RECURSIVE Split(_, _)
Split(s, sep) ==
    IF \A i \in 1..Len(s) : s[i] # sep THEN <<s>>
    ELSE LET i == CHOOSE j \in 1..Len(s) :
                     s[j] = sep /\ \A k \in 1..(j - 1) : s[k] # sep
         IN <<SubSeq(s, 1, i - 1)>> \o Split(SubSeq(s, i + 1, Len(s)), sep)

\* str.strip(): leading and trailing whitespace removed
RECURSIVE LStrip(_)
LStrip(s) == IF s # <<>> /\ Head(s) = " " THEN LStrip(Tail(s)) ELSE s

RECURSIVE RStrip(_)
RStrip(s) ==
    IF s # <<>> /\ s[Len(s)] = " " THEN RStrip(SubSeq(s, 1, Len(s) - 1)) ELSE s

Strip(s) == RStrip(LStrip(s))

\* --------------------------------------------------------------- literals
SyncPrefix == <<"postgresql", "://">>
AsyncPrefix == <<"postgresql", "+asyncpg", "://">>
LocalDb == "postgres:postgres@localhost:5432/analytics_db"
DefaultDatabaseUrl == SyncPrefix \o <<LocalDb>>
DefaultAsyncDatabaseUrl == AsyncPrefix \o <<LocalDb>>
DefaultRedisUrl == <<"redis", "://", "localhost:6379">>
DefaultCorsOrigins ==
    << <<"http://localhost:3000">>, <<"http://localhost:5173">>,
       <<"http://127.0.0.1:3000">>, <<"http://127.0.0.1:5173">> >>

\* ------------------------------------------------------------ field types
\* The scheme of a URL: its tokens before the first "://" (<<>> when it has none).
SchemeOf(s) ==
    IF \A i \in 1..Len(s) : s[i] # "://" THEN <<>>
    ELSE LET i == CHOOSE j \in 1..Len(s) :
                     s[j] = "://" /\ \A k \in 1..(j - 1) : s[k] # "://"
         IN SubSeq(s, 1, i - 1)

AfterScheme(s) == SubSeq(s, Len(SchemeOf(s)) + 2, Len(s))

IsUrl(v, schemes) ==
    /\ v.tag = "str"
    /\ SchemeOf(v.val) \in schemes
    /\ AfterScheme(v.val) # <<>>

\* DATABASE_URL: Optional[PostgresDsn]
PostgresSchemes ==
    {<<"postgres">>, <<"postgresql">>, <<"postgresql", "+asyncpg">>}
PostgresDsn(v) == v.tag = "none" \/ IsUrl(v, PostgresSchemes)

\* REDIS_URL: RedisDsn
RedisDsn(v) == IsUrl(v, {<<"redis">>, <<"rediss">>})

\* ASYNC_DATABASE_URL, CELERY_BROKER_URL, CELERY_RESULT_BACKEND: Optional[str]
OptionalStr(v) == v.tag \in {"none", "str"}

\* BACKEND_CORS_ORIGINS: List[AnyHttpUrl]
HttpOrigins ==
    {"http://a", "http://b", "http://localhost:3000", "http://localhost:5173",
     "http://127.0.0.1:3000", "http://127.0.0.1:5173"}
ListAnyHttpUrl(v) ==
    /\ v.tag = "list"
    /\ \A i \in 1..Len(v.val) : Len(v.val[i]) = 1 /\ v.val[i][1] \in HttpOrigins

\* values.get(name) and values.get(name, default)
Get(vals, name) == IF vals[name].tag = "missing" THEN None ELSE vals[name]
GetOr(vals, name, default) ==
    IF vals[name].tag = "missing" THEN default ELSE vals[name]

\* ------------------------------------------------------------- validators
\* @validator("DATABASE_URL", pre=True)
assemble_db_connection(v) ==
    IF v.tag = "none" THEN Str(DefaultDatabaseUrl) ELSE v

\* @validator("ASYNC_DATABASE_URL", pre=True)
assemble_async_db_connection(v, vals) ==
    IF v.tag = "none"
    THEN LET db_url == Get(vals, "DATABASE_URL")
         IN IF db_url.tag # "none" /\ db_url.val # <<>>
            THEN Str(Replace(db_url.val, SyncPrefix, AsyncPrefix))
            ELSE Str(DefaultAsyncDatabaseUrl)
    ELSE v

\* @validator("BACKEND_CORS_ORIGINS", pre=True); ok = FALSE is `raise ValueError(v)`
StripEach(l) == [i \in 1..Len(l) |-> Strip(l[i])]

assemble_cors_origins_unstripped(v) ==
    IF v.tag = "str" /\ ~StartsWith(v.val, <<"[">>)
    THEN [ok |-> TRUE, out |-> List(Split(v.val, ","))]
    ELSE IF v.tag \in {"list", "str"} THEN [ok |-> TRUE, out |-> v]
    ELSE [ok |-> FALSE, out |-> v]
assemble_cors_origins(v) ==
    IF v.tag = "str" /\ ~StartsWith(v.val, <<"[">>)
    THEN [ok |-> TRUE, out |-> List(StripEach(Split(v.val, ",")))]
    ELSE IF v.tag \in {"list", "str"} THEN [ok |-> TRUE, out |-> v]
    ELSE [ok |-> FALSE, out |-> v]

\* @validator("CELERY_BROKER_URL", pre=True)
assemble_celery_broker(v, vals) ==
    IF v.tag = "none"
    THEN LET redis_url == GetOr(vals, "REDIS_URL", Str(DefaultRedisUrl)).val
         IN Str(redis_url \o <<"/1">>)
    ELSE v

\* @validator("CELERY_RESULT_BACKEND", pre=True)
assemble_celery_backend_as_broker(v, vals) == assemble_celery_broker(v, vals)
assemble_celery_backend(v, vals) ==
    IF v.tag = "none"
    THEN LET redis_url == GetOr(vals, "REDIS_URL", Str(DefaultRedisUrl)).val
         IN Str(redis_url \o <<"/2">>)
    ELSE v

\* ---------------------------------------------------------- Settings()
\* The fields with validators or derived values, in declaration order.
Fields == <<"DATABASE_URL", "ASYNC_DATABASE_URL", "REDIS_URL",
            "BACKEND_CORS_ORIGINS", "CELERY_BROKER_URL", "CELERY_RESULT_BACKEND">>

\* The value a field's validation starts from: the environment's, or the
\* declared default (BaseSettings validates defaults too).
Default(name) ==
    CASE name = "REDIS_URL" -> Str(DefaultRedisUrl)
      [] name = "BACKEND_CORS_ORIGINS" -> List(DefaultCorsOrigins)
      [] OTHER -> None

Raw(name) == IF environ[name].tag = "missing" THEN Default(name) ELSE environ[name]

\* The field is validated: stored in `values`, or recorded as an error and left
\* out of `values`.
Store(name, ok, v) ==
    /\ values' = IF ok THEN [values EXCEPT ![name] = v] ELSE values
    /\ errs' = IF ok THEN errs ELSE errs \union {name}
    /\ cpc' = cpc + 1

AtField(name) == cpc <= Len(Fields) /\ Fields[cpc] = name

Field_DATABASE_URL ==
    /\ AtField("DATABASE_URL")
    /\ LET v == assemble_db_connection(Raw("DATABASE_URL"))
       IN Store("DATABASE_URL", PostgresDsn(v), v)
    /\ UNCHANGED <<dbvars, schemavars, environ, corsOut>>

Field_ASYNC_DATABASE_URL ==
    /\ AtField("ASYNC_DATABASE_URL")
    /\ LET v == assemble_async_db_connection(Raw("ASYNC_DATABASE_URL"), values)
       IN Store("ASYNC_DATABASE_URL", OptionalStr(v), v)
    /\ UNCHANGED <<dbvars, schemavars, environ, corsOut>>

Field_REDIS_URL ==
    /\ AtField("REDIS_URL")
    /\ LET v == Raw("REDIS_URL")
       IN Store("REDIS_URL", RedisDsn(v), v)
    /\ UNCHANGED <<dbvars, schemavars, environ, corsOut>>

Field_BACKEND_CORS_ORIGINS ==
    /\ AtField("BACKEND_CORS_ORIGINS")
    /\ LET r == assemble_cors_origins(Raw("BACKEND_CORS_ORIGINS"))
       IN /\ corsOut' = [done |-> TRUE, ok |-> r.ok, out |-> r.out]
          /\ Store("BACKEND_CORS_ORIGINS", r.ok /\ ListAnyHttpUrl(r.out), r.out)
    /\ UNCHANGED <<dbvars, schemavars, environ>>

Field_CELERY_BROKER_URL ==
    /\ AtField("CELERY_BROKER_URL")
    /\ LET v == assemble_celery_broker(Raw("CELERY_BROKER_URL"), values)
       IN Store("CELERY_BROKER_URL", OptionalStr(v), v)
    /\ UNCHANGED <<dbvars, schemavars, environ, corsOut>>

Field_CELERY_RESULT_BACKEND ==
    /\ AtField("CELERY_RESULT_BACKEND")
    /\ LET v == assemble_celery_backend(Raw("CELERY_RESULT_BACKEND"), values)
       IN Store("CELERY_RESULT_BACKEND", OptionalStr(v), v)
    /\ UNCHANGED <<dbvars, schemavars, environ, corsOut>>

\* settings = Settings()
NextSettings ==
    \/ Field_DATABASE_URL
    \/ Field_ASYNC_DATABASE_URL
    \/ Field_REDIS_URL
    \/ Field_BACKEND_CORS_ORIGINS
    \/ Field_CELERY_BROKER_URL
    \/ Field_CELERY_RESULT_BACKEND

\* Construction is over; it succeeded when no field failed.
Loaded == cpc > Len(Fields)
Constructed == Loaded /\ errs = {}

\* ------------------------------------------------------ environment inputs
Rest == "u:p@h:5432/db"
DatabaseUrlInputs ==
    {Missing,
     Str(<<"postgresql", "://", Rest>>),
     Str(<<"postgres", "://", Rest>>),
     Str(<<"postgresql", "+asyncpg", "://", Rest>>),
     Str(<<"mysql", "://", Rest>>)}
AsyncDatabaseUrlInputs ==
    {Missing, Str(<<"postgresql", "+asyncpg", "://", "a:b@other:5432/db2">>)}
RedisUrlInputs ==
    {Missing,
     Str(<<"redis", "://", "h:6379">>),
     Str(<<"rediss", "://", "h:6379", "/0">>),
     Str(<<"http", "://", "h:6379">>)}
CeleryBrokerInputs == {Missing, Str(<<"amqp", "://", "mq:5672">>)}
CeleryBackendInputs == {Missing, Str(<<"rpc", "://">>)}

\* Strings of at most n tokens over an alphabet.
RECURSIVE Strings(_, _)
Strings(alphabet, n) ==
    IF n = 0 THEN {<<>>}
    ELSE LET shorter == Strings(alphabet, n - 1)
         IN shorter \union
            {Append(t, a) : t \in {u \in shorter : Len(u) = n - 1}, a \in alphabet}

CorsAlphabet == {"a", " ", ",", "["}
ABC == <<"a", ",", " ", "b", ",", "c">>
CorsExamples ==
    {Str(ABC),
     Str(<<" ", "http://a", " ", ",", "http://b", " ">>),
     List(<< <<"http://a">>, <<" ", "http://b">> >>),
     List(<<>>),
     IntVal(7),
     Missing}
CorsInputs == {Str(t) : t \in Strings(CorsAlphabet, MaxCorsLen)} \union CorsExamples

InitSettingsState ==
    /\ values = [f \in {Fields[i] : i \in 1..Len(Fields)} |-> Missing]
    /\ errs = {}
    /\ corsOut = [done |-> FALSE, ok |-> FALSE, out |-> None]
    /\ cpc = 1

Env(db, adb, redis, cors, broker, backend) ==
    [DATABASE_URL |-> db, ASYNC_DATABASE_URL |-> adb, REDIS_URL |-> redis,
     BACKEND_CORS_ORIGINS |-> cors, CELERY_BROKER_URL |-> broker,
     CELERY_RESULT_BACKEND |-> backend]

\* Not loading: the state of the settings in the session manager's runs.
InitCfgIdle ==
    /\ environ = Env(Missing, Missing, Missing, Missing, Missing, Missing)
    /\ InitSettingsState

InitDb ==
    /\ ENVIRONMENT \in {"development", "test"}
    /\ checkedout = 0
    /\ pc = [c \in Callers |-> "idle"]
    /\ body = [c \in Callers |-> "pending"]
    /\ raised = [c \in Callers |-> "none"]
    /\ pending = [c \in Callers |-> "none"]
    /\ hasConn = [c \in Callers |-> FALSE]
    /\ txn = [c \in Callers |-> "created"]
    /\ ops = [c \in Callers |-> <<>>]
    /\ logged = [c \in Callers |-> "none"]
    /\ result = [c \in Callers |-> "none"]
    /\ req = [c \in Callers |-> "none"]
    /\ blocked = [c \in Callers |-> FALSE]

\* The session manager: concurrent get_db invocations on the engine's pool.
Init == InitDb /\ InitSchema /\ tables = TRUE /\ InitCfgIdle

Next == \E c \in Callers : get_db(c)

Spec == Init /\ [][Next]_vars

\* The schema operations, called while no session is open.
InitSchemaOps == InitDb /\ InitSchema /\ InitCfgIdle

NextSchema ==
    \/ create_tables
    \/ drop_tables
    \/ SchemaStep

SpecSchema == InitSchemaOps /\ [][NextSchema]_vars

\* Settings() under every combination of the URL inputs.
InitSettings ==
    /\ InitDb /\ ENVIRONMENT = "development"
    /\ InitSchema /\ tables = TRUE
    /\ \E db \in DatabaseUrlInputs, adb \in AsyncDatabaseUrlInputs,
          redis \in RedisUrlInputs, cors \in CorsExamples,
          broker \in CeleryBrokerInputs, backend \in CeleryBackendInputs :
          environ = Env(db, adb, redis, cors, broker, backend)
    /\ InitSettingsState

SpecSettings == InitSettings /\ [][NextSettings]_vars

\* Settings() under every BACKEND_CORS_ORIGINS input, the other fields unset.
InitCors ==
    /\ InitDb /\ ENVIRONMENT = "development"
    /\ InitSchema /\ tables = TRUE
    /\ \E cors \in CorsInputs :
          environ = Env(Missing, Missing, Missing, cors, Missing, Missing)
    /\ InitSettingsState

SpecCors == InitCors /\ [][NextSettings]_vars

\* ------------------------------------------------------ claims on get_db
Issued(c, name) == \E i \in 1..Len(ops[c]) : ops[c][i].op = name
Holders == {c \in Callers : hasConn[c]}

\* C1: when get_db has finished (control is back with the invoker), on every
\* exit path, the session is closed, a close was issued on it, it holds no
\* connection, and the pool counts exactly the connections still held.
C1_ClosedBeforeReturn ==
    /\ checkedout = Cardinality(Holders)
    /\ \A c \in Callers :
          pc[c] = "done" =>
             /\ txn[c] = "closed"
             /\ ~hasConn[c]
             /\ Issued(c, "close")

\* C1 witness: a cancelled unit of work that had borrowed a connection has
\* finished, and the pool has every connection back.
C1_Witness ==
    \E c \in Callers :
       /\ pc[c] = "done"
       /\ body[c] = "cancelled"
       /\ req[c] = "served"
       /\ checkedout = 0

\* C2 (as claimed): whenever the body raised, the session ends closed and the
\* exception that reaches the invoker is the one the body raised.
C2_ExceptionUnchanged ==
    \A c \in Callers :
       (pc[c] = "done" /\ body[c] = "raised") =>
          /\ txn[c] = "closed"
          /\ result[c] = raised[c]

C4_CancelRollsBackThenCloses ==
    \A c \in Callers :
       (pc[c] = "done" /\ body[c] = "cancelled") =>
          /\ Len(ops[c]) >= 2
          /\ ops[c][1].op = "rollback"
          /\ ops[c][2].op = "close"

\* C5 (as claimed): a finished session had exactly one of commit and rollback
\* issued on it, rollback only after a failure and commit only when the body
\* did not fail.
C5_ExactlyOneTerminator ==
    \A c \in Callers :
       pc[c] = "done" =>
          /\ Issued(c, "commit") # Issued(c, "rollback")
          /\ Issued(c, "rollback") => body[c] # "returned"
          /\ Issued(c, "commit") => body[c] = "returned"

\* C6 (as claimed): the borrowed connections never exceed pool_size +
\* max_overflow, and a caller that blocked is served, never turned away.
C6_PoolBoundedAndServed ==
    /\ checkedout <= PoolCapacity
    /\ \A c \in Callers : blocked[c] => req[c] \in {"waiting", "served"}

\* C6 (amended): under the QueuePool discipline (ENVIRONMENT other than "test")
\* the borrowed connections never exceed pool_size + max_overflow; a blocked
\* caller holds no connection while it waits and stays queued until it is served,
\* cancelled, or the pool's timeout raises TimeoutError in its body, and that
\* error (or the one replacing it) reaches the invoker: no request disappears.
\* Under NullPool no caller ever blocks.
C6_QueuePoolBounded ==
    /\ poolclass = "QueuePool" => checkedout <= PoolCapacity
    /\ checkedout = Cardinality(Holders)
    /\ \A c \in Callers :
          /\ blocked[c] => poolclass = "QueuePool"
          /\ req[c] = "waiting" <=> pc[c] = "waiting"
          /\ req[c] = "waiting" => ~hasConn[c]
          /\ blocked[c] => req[c] \in {"waiting", "served", "timeout", "cancelled"}
          /\ req[c] = "timeout" =>
                /\ raised[c] = "TimeoutError"
                /\ pc[c] = "done" => result[c] \in ExceptionClasses

\* C6 witness: with the pool exhausted a caller blocked, and was served after
\* another session released its connection.
C6_Witness ==
    \E c \in Callers :
       /\ blocked[c]
       /\ req[c] = "served"
       /\ hasConn[c]
       /\ \E d \in Callers \ {c} : pc[d] = "done" /\ req[d] = "served"

\* --------------------------------- claims on create_tables / drop_tables
SchemaFailed == spc = "done" /\ sfailed # "none"

Supplied(name) == environ[name].tag # "missing"

\* C7 (as claimed): when Settings() succeeds and ASYNC_DATABASE_URL was not
\* supplied, it is DATABASE_URL (the localhost default when that is not supplied
\* either) with the scheme rewritten to the async driver's, postgresql+asyncpg,
\* and the rest of the URL kept; a supplied ASYNC_DATABASE_URL is kept as it is.
C7_AsyncUrlRewritten ==
    Constructed =>
       IF Supplied("ASYNC_DATABASE_URL")
       THEN values["ASYNC_DATABASE_URL"] = environ["ASYNC_DATABASE_URL"]
       ELSE LET db == IF Supplied("DATABASE_URL")
                      THEN environ["DATABASE_URL"].val
                      ELSE DefaultDatabaseUrl
                a == values["ASYNC_DATABASE_URL"]
            IN /\ a.tag = "str"
               /\ SchemeOf(a.val) = <<"postgresql", "+asyncpg">>
               /\ AfterScheme(a.val) = AfterScheme(db)

\* C8: when Settings() succeeds, a CELERY_BROKER_URL that was not supplied is
\* REDIS_URL followed by "/1" and a CELERY_RESULT_BACKEND that was not supplied is
\* REDIS_URL followed by "/2" (REDIS_URL being the supplied one, or its default);
\* a supplied value of either field is kept as it is.
C8_CeleryUrlsDerived ==
    Constructed =>
       LET redis == IF Supplied("REDIS_URL")
                    THEN environ["REDIS_URL"].val
                    ELSE DefaultRedisUrl
       IN /\ values["REDIS_URL"] = Str(redis)
          /\ values["CELERY_BROKER_URL"] =
                (IF Supplied("CELERY_BROKER_URL")
                 THEN environ["CELERY_BROKER_URL"]
                 ELSE Str(Append(redis, "/1")))
          /\ values["CELERY_RESULT_BACKEND"] =
                (IF Supplied("CELERY_RESULT_BACKEND")
                 THEN environ["CELERY_RESULT_BACKEND"]
                 ELSE Str(Append(redis, "/2")))

\* C8 witness: REDIS_URL=redis://h:6379 with neither Celery field supplied gave
\* redis://h:6379/1 and redis://h:6379/2.
C8_Witness ==
    /\ Constructed
    /\ environ["REDIS_URL"] = Str(<<"redis", "://", "h:6379">>)
    /\ ~Supplied("CELERY_BROKER_URL")
    /\ ~Supplied("CELERY_RESULT_BACKEND")
    /\ values["CELERY_BROKER_URL"].val = <<"redis", "://", "h:6379", "/1">>
    /\ values["CELERY_RESULT_BACKEND"].val = <<"redis", "://", "h:6379", "/2">>

\* What the claim on BACKEND_CORS_ORIGINS is stated with.
Count(s, t) == Cardinality({i \in 1..Len(s) : s[i] = t})

RECURSIVE Without(_, _)
Without(s, t) ==
    IF s = <<>> THEN <<>>
    ELSE IF Head(s) = t THEN Without(Tail(s), t)
    ELSE <<Head(s)>> \o Without(Tail(s), t)

RECURSIVE Join(_, _)
Join(l, sep) ==
    IF Len(l) = 0 THEN <<>>
    ELSE IF Len(l) = 1 THEN l[1]
    ELSE l[1] \o <<sep>> \o Join(Tail(l), sep)

PartOf(e, s) == \E i \in 0..(Len(s) - Len(e)) : SubSeq(s, i + 1, i + Len(e)) = e

Trimmed(e) == e = <<>> \/ (e[1] # " " /\ e[Len(e)] # " ")

\* C9: once assemble_cors_origins has run on an input v: if v is a string not
\* beginning with "[", it returned a list with one element per comma-separated
\* piece of v, in order, each without surrounding whitespace and otherwise as in
\* v ("a, b,c" gives ["a","b","c"]); if v is a list, or a string beginning with
\* "[", it returned v unchanged; for any other v it raised and the field is a
\* validation error.
C9_CorsOriginsParsed ==
    corsOut.done =>
       LET v == IF Supplied("BACKEND_CORS_ORIGINS")
                THEN environ["BACKEND_CORS_ORIGINS"]
                ELSE List(DefaultCorsOrigins)
           out == corsOut.out
       IN IF v.tag = "str" /\ (Len(v.val) = 0 \/ v.val[1] # "[")
          THEN /\ corsOut.ok
               /\ out.tag = "list"
               /\ Len(out.val) = Count(v.val, ",") + 1
               /\ \A i \in 1..Len(out.val) :
                     /\ Count(out.val[i], ",") = 0
                     /\ Trimmed(out.val[i])
                     /\ PartOf(out.val[i], v.val)
               /\ Without(Join(out.val, ","), " ") = Without(v.val, " ")
               /\ v.val = ABC => out.val = << <<"a">>, <<"b">>, <<"c">> >>
          ELSE IF v.tag \in {"list", "str"}
          THEN /\ corsOut.ok
               /\ out.tag = v.tag
               /\ out.val = v.val
          ELSE /\ ~corsOut.ok
               /\ "BACKEND_CORS_ORIGINS" \in errs

\* C9 witness: "a, b,c" was parsed to ["a","b","c"].
C9_Witness ==
    /\ corsOut.done
    /\ environ["BACKEND_CORS_ORIGINS"].tag = "str"
    /\ environ["BACKEND_CORS_ORIGINS"].val = ABC
    /\ corsOut.out.val = << <<"a">>, <<"b">>, <<"c">> >>

====
